---- MODULE Spec2Model ----
(***************************************************************************)
(* Model of the Reddit personality analyser: the five provider variants    *)
(* (persona.py, reddit-analyser-complete-claude.py,                         *)
(* reddit-analyser-complete-groq.py, reddit-analyzer-claude.py,            *)
(* reddit-analyser-shell-gemini.py) share the cache store, the history     *)
(* store and the interactive loop; `variant` selects the program that runs. *)
(* Time is counted in hours.  A file is the sequence of chunks json.dump   *)
(* wrote to it; a process killed inside a write leaves a proper prefix.    *)
(***************************************************************************)
EXTENDS Integers, Sequences, FiniteSets, TLC

VARIABLES variant, now, fs, pc, username, question, chat_history, call, last,
          fn, arg, out

\* fn, arg, out: the routine applied on its own, its argument and what it gave
\* (fn = "none" throughout a session of the interactive program)
vars == <<variant, now, fs, pc, username, question, chat_history, call, last,
          fn, arg, out>>

----------------------------------------------------------------------------
(* Bounds of the model *)

MaxNow == 24
MaxTurns == 1
LongTurns == 2
MaxItems == 1
MaxStream == 3
MaxTail == 2
MaxHistory == 4
MaxRecords == 3
MaxExtra == 1
MaxText == 40000
MaxFound == 1
MaxOffset == 1
MaxLimit == 1

TickHours == {23, 24}
FlushedChunks == {0, 1}
Users == {"alice"}
Subreddits == {"python"}
Questions == {"what are their hobbies"}
Commands == {"exit", "refresh", "history", "help"}

----------------------------------------------------------------------------
(* The five programs and what distinguishes them *)

Variants == {"persona", "complete-claude", "complete-groq", "analyzer-claude", "shell-gemini"}

UsesPraw(v) == v # "persona"
ChecksFreshness(v) == v # "persona"
HasHistory(v) == v # "complete-claude"
HasRefreshCommand(v) == v # "persona"
HasHelpCommand(v) == v = "complete-claude"
GuardsCompletion(v) == v \in {"complete-claude", "complete-groq", "shell-gemini"}
WrapsRecords(v) == v \in {"analyzer-claude", "shell-gemini"}

TopKComplete == 5
TopKDefault == 10
TopK_All(v) == TopKComplete + TopKDefault
TopK(v) == IF v = "complete-claude" THEN TopKComplete ELSE TopKDefault
FreshDays == 1
HoursPerDay == 24

----------------------------------------------------------------------------
(* Sequences *)

RECURSIVE SeqsUpTo(_, _)
SeqsUpTo(S, n) ==
  IF n = 0 THEN {<<>>}
  ELSE LET shorter == SeqsUpTo(S, n - 1)
       IN shorter \cup {Append(s, x) : s \in {t \in shorter : Len(t) = n - 1}, x \in S}

Min(a, b) == IF a < b THEN a ELSE b

Take(s, n) == SubSeq(s, 1, IF n < Len(s) THEN n ELSE Len(s))

----------------------------------------------------------------------------
(* Files and the json module *)

cache_dir == "reddit_cache"
history_dir == "chat_history"

get_cache_path(u) == <<cache_dir, u \o ".json">>
get_history_path(u) == <<history_dir, u \o "_history.json">>

Paths == {get_cache_path(u) : u \in Users} \cup {get_history_path(u) : u \in Users}

Absent == [exists |-> FALSE, chunks |-> <<>>, mtime |-> 0]

Tok(t, k, v) == [t |-> t, k |-> k, v |-> v]

\* A Python dict whose keys are data (top_subreddits) is a sequence of <<key, value>>
\* pairs in insertion order.  json.dump writes its members in that order.
DumpMapping_Reversed(pairs) ==
  [i \in 1..Len(pairs) |-> [name |-> pairs[Len(pairs) + 1 - i][1],
                            value |-> pairs[Len(pairs) + 1 - i][2]]]
DumpMapping(pairs) == [i \in 1..Len(pairs) |-> [name |-> pairs[i][1], value |-> pairs[i][2]]]

\* json.load builds the dict member by member: a name met again keeps its place
\* and takes the later value
RECURSIVE LoadsMapping(_, _)
LoadsMapping(members, acc) ==
  IF members = <<>> THEN acc
  ELSE LET m == Head(members)
           seen == \E i \in 1..Len(acc) : acc[i][1] = m.name
       IN LoadsMapping(Tail(members),
            IF seen
            THEN [i \in 1..Len(acc) |-> IF acc[i][1] = m.name THEN <<m.name, m.value>> ELSE acc[i]]
            ELSE Append(acc, <<m.name, m.value>>))

\* the JSON text of the value of a top-level key, and the value json.load gives back
JsonOf(k, value) ==
  IF k = "statistics"
  THEN [value EXCEPT !.top_subreddits = DumpMapping(value.top_subreddits)]
  ELSE value
ValueOf(k, json) ==
  IF k = "statistics"
  THEN [json EXCEPT !.top_subreddits = LoadsMapping(json.top_subreddits, <<>>)]
  ELSE json

\* json.dump of a dict: the keys in insertion order
DumpDict(keys, d) ==
  <<Tok("{", "", <<>>)>> \o [i \in 1..Len(keys) |-> Tok("pair", keys[i], JsonOf(keys[i], d[keys[i]]))]
                        \o <<Tok("}", "", <<>>)>>

\* json.load of a file holding a dict; JSONDecodeError when the text is not complete JSON
LoadsDict(chunks) ==
  LET n == Len(chunks)
      good == /\ n >= 2
              /\ chunks[1].t = "{"
              /\ chunks[n].t = "}"
              /\ \A i \in 2..(n - 1) : chunks[i].t = "pair"
  IN IF good
     THEN [ok |-> TRUE,
           value |-> [k \in {chunks[i].k : i \in 2..(n - 1)} |->
                        ValueOf(k, chunks[CHOOSE i \in 2..(n - 1) : chunks[i].k = k].v)]]
     ELSE [ok |-> FALSE, value |-> <<>>]

\* An answer is JSON serializable when it is a str; a list of content blocks is not
Serializable(turn) == turn.answer.type = "str"

\* json.dump of the history list: chunks are written as they are produced, so a
\* TypeError on a turn leaves the chunks before it and the opening of that turn
DumpList(h) ==
  LET bad == {i \in 1..Len(h) : ~Serializable(h[i])}
      stop == IF bad = {} THEN Len(h) + 1 ELSE CHOOSE i \in bad : \A j \in bad : i <= j
      items == [i \in 1..(stop - 1) |-> Tok("item", "", h[i])]
  IN IF bad = {}
     THEN [raises |-> FALSE, chunks |-> <<Tok("[", "", <<>>)>> \o items \o <<Tok("]", "", <<>>)>>]
     ELSE [raises |-> TRUE, chunks |-> <<Tok("[", "", <<>>)>> \o items \o <<Tok("{", "", <<>>)>>]

LoadsList(chunks) ==
  LET n == Len(chunks)
      good == /\ n >= 2
              /\ chunks[1].t = "["
              /\ chunks[n].t = "]"
              /\ \A i \in 2..(n - 1) : chunks[i].t = "item"
  IN IF good
     THEN [ok |-> TRUE, value |-> [i \in 1..(n - 2) |-> chunks[i + 1].v]]
     ELSE [ok |-> FALSE, value |-> <<>>]

\* open(path, 'w') truncates, then the chunks are written; kill = TRUE stops the
\* process after `flushed` chunks (fewer than all of them)
Written(chunks, kill, flushed) ==
  IF kill THEN Take(chunks, IF flushed < Len(chunks) THEN flushed ELSE Len(chunks) - 1)
  ELSE chunks

\* mtime is the time of the write (kept for cache files, whose age matters)
WriteFile(files, path, chunks, t) ==
  [files EXCEPT ![path] = [exists |-> TRUE, chunks |-> chunks, mtime |-> t]]

----------------------------------------------------------------------------
(* Cache store *)

\* load_cached_data: None when the file is missing, the parsed dict otherwise;
\* json.load raising is not caught
load_cached_data(files, u) ==
  LET f == files[get_cache_path(u)]
      parsed == LoadsDict(f.chunks)
  IN IF ~f.exists THEN [raises |-> FALSE, found |-> FALSE, value |-> <<>>]
     ELSE IF ~parsed.ok THEN [raises |-> TRUE, found |-> FALSE, value |-> <<>>]
     ELSE [raises |-> FALSE, found |-> TRUE, value |-> parsed.value]

\* truth value of a Python dict
Truthy(d) == DOMAIN d # {}

\* datetime.isoformat / datetime.fromisoformat: the text of a time and back
isoformat(t) == <<"iso", t>>
fromisoformat(s) == s[2]

\* timedelta.days of (t - t0): the floor of the hours over 24
Days(hours) == hours \div HoursPerDay

IsFresh_Inverted(cached, t) == Days(t - fromisoformat(cached["fetch_time"])) >= FreshDays
IsFresh(cached, t) == Days(t - fromisoformat(cached["fetch_time"])) < FreshDays

DataKeys == <<"submissions", "comments", "username", "fetch_time", "statistics">>
ListingKeys == <<"kind", "data">>

----------------------------------------------------------------------------
(* Remote content source *)

\* what the source holds for a user: records with the fields the programs read
SourceSeqs == SeqsUpTo({[subreddit |-> s, score |-> 1] : s \in Subreddits}, MaxItems)

\* one run of the environment for a handler: the outcome of the existence probe
\* (of the single GET in persona.py), the records each listing yields and which
\* listing then fails, where a kill hits, and the outcome of the completion call
\* (without the runs that differ only in a part that is never looked at: the
\* first chunk of a cache file does not depend on the records)
Envs == {e \in [probe : {"ok", "notfound", "error"},
                subs : SourceSeqs, coms : SourceSeqs,
                fault : {"none", "submissions", "comments"},
                kill : {"none", "cache", "history"}, flushed : FlushedChunks,
                completion : {"ok", "error"}] :
           /\ e.probe # "ok" => e.subs = <<>> /\ e.coms = <<>> /\ e.fault = "none"
           /\ e.kill = "none" => e.flushed = 0
           /\ e.kill = "cache" => e.subs = <<>> /\ e.coms = <<>> /\ e.fault = "none"}

\* a text of len characters (id tells texts apart), '' and text[:n]
Text(id, len) == [id |-> id, len |-> len]
NoText == Text(0, 0)
Cut(text, n) == [text EXCEPT !.len = Min(text.len, n)]

\* key in d, and d.get(key, default)
Has(d, k) == k \in DOMAIN d
Get(d, k, default) == IF Has(d, k) THEN d[k] ELSE default

\* reddit-analyser-complete-claude.py asks for new(limit=100) and keeps
\* selftext[:1000] and body[:1000]; the other PRAW programs ask for new(limit=None)
ListingLimit == 100
FetchChars == 1000

\* the dict a generator yields for a record
Yielded(v, kind, raw) ==
  LET kept == IF v = "complete-claude"
              THEN [k \in DOMAIN raw |->
                      IF k \in {"selftext", "body"} THEN Cut(raw[k], FetchChars) ELSE raw[k]]
              ELSE raw
  IN IF WrapsRecords(v) THEN [type |-> kind, data |-> kept] ELSE kept
SubredditOf(v, item) == IF WrapsRecords(v) THEN item.data.subreddit ELSE item.subreddit

\* fetch_all_submissions / fetch_all_comments: an exception of the listing is caught
\* inside the generator, which then ends; the records yielded before it stay
fetch_all(v, kind, delivered) ==
  LET pulled == IF v = "complete-claude" THEN Take(delivered, ListingLimit) ELSE delivered
  IN [i \in 1..Len(pulled) |-> Yielded(v, kind, pulled[i])]

----------------------------------------------------------------------------
(* Aggregator: subreddit_activity and top_subreddits *)

Bump_MoveToEnd(acc, s) ==
  IF \E i \in 1..Len(acc) : acc[i][1] = s
  THEN LET at == CHOOSE i \in 1..Len(acc) : acc[i][1] = s
       IN SubSeq(acc, 1, at - 1) \o SubSeq(acc, at + 1, Len(acc)) \o <<<<s, acc[at][2] + 1>>>>
  ELSE Append(acc, <<s, 1>>)
\* subreddit_activity[s] = subreddit_activity.get(s, 0) + 1, keys in insertion order
Bump(acc, s) ==
  IF \E i \in 1..Len(acc) : acc[i][1] = s
  THEN [i \in 1..Len(acc) |-> IF acc[i][1] = s THEN <<s, acc[i][2] + 1>> ELSE acc[i]]
  ELSE Append(acc, <<s, 1>>)

RECURSIVE CountActivity(_, _, _)
CountActivity(v, items, acc) ==
  \* (Len(acc) < 0 never holds: it makes TLC evaluate acc at every record)
  \* the loop over items, taken in halves to keep the evaluation shallow
  IF items = <<>> \/ Len(acc) < 0 THEN acc
  ELSE IF Len(items) = 1 THEN Bump(acc, SubredditOf(v, items[1]))
  ELSE CountActivity(v, SubSeq(items, Len(items) \div 2 + 1, Len(items)),
                     CountActivity(v, SubSeq(items, 1, Len(items) \div 2), acc))

\* sorted(..., key=count, reverse=True) is stable: equal counts keep their order
RECURSIVE InsertDesc(_, _)
InsertDesc(sorted, e) ==
  IF sorted = <<>> THEN <<e>>
  ELSE IF Head(sorted)[2] >= e[2] THEN <<Head(sorted)>> \o InsertDesc(Tail(sorted), e)
  ELSE <<e>> \o sorted

RECURSIVE SortedDesc(_, _)
SortedDesc(pairs, acc) ==
  IF pairs = <<>> THEN acc ELSE SortedDesc(Tail(pairs), InsertDesc(acc, Head(pairs)))

top_subreddits_Unsorted(v, submissions_data, comments_data) ==
  Take(CountActivity(v, submissions_data \o comments_data, <<>>), TopK(v))
top_subreddits(v, submissions_data, comments_data) ==
  Take(SortedDesc(CountActivity(v, submissions_data \o comments_data, <<>>), <<>>), TopK(v))

----------------------------------------------------------------------------
(* fetch_user_data *)

NoData == [ok |-> FALSE, value |-> <<>>]
Data(d) == [ok |-> TRUE, value |-> d]

BuildData_Epoch(v, u, t, submissions_data, comments_data) ==
  [submissions |-> submissions_data,
   comments |-> comments_data,
   username |-> u,
   fetch_time |-> isoformat(0),
   statistics |-> [total_submissions |-> Len(submissions_data),
                   total_comments |-> Len(comments_data),
                   top_subreddits |-> top_subreddits(v, submissions_data, comments_data)]]
\* the dataset the PRAW variants build
BuildData(v, u, t, submissions_data, comments_data) ==
  [submissions |-> submissions_data,
   comments |-> comments_data,
   username |-> u,
   fetch_time |-> isoformat(t),
   statistics |-> [total_submissions |-> Len(submissions_data),
                   total_comments |-> Len(comments_data),
                   top_subreddits |-> top_subreddits(v, submissions_data, comments_data)]]

\* response.json() of https://www.reddit.com/user/<name>.json
Listing(children) == [kind |-> "Listing", data |-> [children |-> children]]
Children(raws) == [i \in 1..Len(raws) |-> [kind |-> "t3", data |-> raws[i]]]

save_to_cache_LosingComments(v, files, u, data, t, e) ==
  LET kept == IF UsesPraw(v) THEN [data EXCEPT !.comments = <<>>] ELSE Listing(<<>>)
      chunks == DumpDict(IF UsesPraw(v) THEN DataKeys ELSE ListingKeys, kept)
  IN WriteFile(files, get_cache_path(u), Written(chunks, e.kill = "cache", e.flushed), t)

\* save_to_cache, possibly killed inside the write
save_to_cache(v, files, u, data, t, e) ==
  LET chunks == DumpDict(IF UsesPraw(v) THEN DataKeys ELSE ListingKeys, data)
  IN WriteFile(files, get_cache_path(u), Written(chunks, e.kill = "cache", e.flushed), t)

\* the cache check at the head of fetch_user_data: "hit", "miss" or "raise"
CacheCheck(v, files, u, force_refresh, t) ==
  LET cached == load_cached_data(files, u)
  IN IF force_refresh THEN "miss"
     ELSE IF cached.raises THEN "raise"
     ELSE IF ~cached.found \/ ~Truthy(cached.value) THEN "miss"
     ELSE IF ~ChecksFreshness(v) THEN "hit"
     ELSE IF IsFresh(cached.value, t) THEN "hit"
     ELSE "miss"

\* `_ = redditor.created_utc` (response.raise_for_status() in persona.py) raises
\* for a user the source does not know and on a network failure
ProbeSkipped(v, e) == FALSE
ProbeFails(v, e) == e.probe # "ok"

Requests_ProbeAgain(v, e) ==
  IF ~UsesPraw(v) THEN <<"get">>
  ELSE IF ProbeFails(v, e) THEN <<"probe", "probe">>
  ELSE <<"probe", "submissions", "comments">>
\* the requests a refetch sends, in order
Requests(v, e) ==
  IF ~UsesPraw(v) THEN <<"get">>
  ELSE IF ProbeFails(v, e) THEN <<"probe">>
  ELSE <<"probe", "submissions", "comments">>

fetch_user_data_SavingHits(v, files, u, force_refresh, t, e) ==
  LET check == CacheCheck(v, files, u, force_refresh, t)
      data == IF UsesPraw(v)
              THEN BuildData(v, u, t, fetch_all(v, "submission", e.subs),
                                      fetch_all(v, "comment", e.coms))
              ELSE Listing(e.subs)
      base == [files |-> files, result |-> NoData, remote |-> <<>>,
               outcome |-> "none", dead |-> FALSE]
  IN IF check = "raise" THEN [base EXCEPT !.outcome = "raised"]
     ELSE IF check = "hit"
     THEN [base EXCEPT !.outcome = "hit",
                       !.result = Data(load_cached_data(files, u).value),
                       !.files = save_to_cache(v, files, u, load_cached_data(files, u).value, t, e)]
     ELSE IF ProbeFails(v, e)
     THEN [base EXCEPT !.outcome = "failed", !.remote = Requests(v, e)]
     ELSE IF e.kill = "cache"
     THEN [base EXCEPT !.outcome = "killed", !.remote = Requests(v, e), !.dead = TRUE,
                       !.files = save_to_cache(v, files, u, data, t, e)]
     ELSE [base EXCEPT !.outcome = "fetched", !.remote = Requests(v, e),
                       !.result = Data(data),
                       !.files = save_to_cache(v, files, u, data, t, e)]
\* fetch_user_data(username, force_refresh) at time t with environment e:
\* the files after it, what it returns, the requests it sent
fetch_user_data(v, files, u, force_refresh, t, e) ==
  LET check == CacheCheck(v, files, u, force_refresh, t)
      data == IF UsesPraw(v)
              THEN BuildData(v, u, t, fetch_all(v, "submission", e.subs),
                                      fetch_all(v, "comment", e.coms))
              ELSE Listing(e.subs)
      base == [files |-> files, result |-> NoData, remote |-> <<>>,
               outcome |-> "none", dead |-> FALSE]
  IN IF check = "raise" THEN [base EXCEPT !.outcome = "raised"]
     ELSE IF check = "hit"
     THEN [base EXCEPT !.outcome = "hit",
                       !.result = Data(load_cached_data(files, u).value)]
     ELSE IF ProbeFails(v, e)
     THEN [base EXCEPT !.outcome = "failed", !.remote = Requests(v, e)]
     ELSE IF e.kill = "cache"
     THEN [base EXCEPT !.outcome = "killed", !.remote = Requests(v, e), !.dead = TRUE,
                       !.files = save_to_cache(v, files, u, data, t, e)]
     ELSE [base EXCEPT !.outcome = "fetched", !.remote = Requests(v, e),
                       !.result = Data(data),
                       !.files = save_to_cache(v, files, u, data, t, e)]

----------------------------------------------------------------------------
(* Completion capability and the analysis routine *)

\* entry['question'] and entry['answer'] raise KeyError on an entry without the key
HasKeys(entry) == {"question", "answer"} \subseteq DOMAIN entry

\* chat_history[-3:]
ContextTurns == 3

context_window_Oldest(history) == Take(history, ContextTurns)
context_window(history) ==
  SubSeq(history,
         IF Len(history) > ContextTurns THEN Len(history) - ContextTurns + 1 ELSE 1,
         Len(history))

\* the history lines of the prompt cannot be built: the KeyError leaves the routine
ContextRaises(v, history) ==
  /\ HasHistory(v)
  /\ \E i \in 1..Len(context_window(history)) : ~HasKeys(context_window(history)[i])

Str(text) == [type |-> "str", text |-> text]
\* message.content of the Anthropic SDK: a list of content blocks, not a str
ContentBlocks(text) == [type |-> "blocks", text |-> text]

ReturnsContentBlocks(v) == v \in {"persona", "analyzer-claude"}

Unfetched_Never(f) == FALSE
\* `if not data:` on what fetch_user_data returned
Unfetched(f) == ~f.result.ok

analyse_ErrorUnreported(v, f, e, history) ==
  IF f.outcome = "raised" THEN [raised |-> TRUE, completed |-> FALSE, answer |-> Str("")]
  ELSE IF Unfetched(f)
  THEN [raised |-> FALSE, completed |-> FALSE, answer |-> Str("Unable to fetch user data.")]
  ELSE IF ContextRaises(v, history)
  THEN [raised |-> TRUE, completed |-> FALSE, answer |-> Str("")]
  ELSE [raised |-> FALSE, completed |-> TRUE,
        answer |-> IF ReturnsContentBlocks(v) THEN ContentBlocks("analysis") ELSE Str("analysis")]
\* analyse_with_claude / analyse_with_groq / analyse_with_gemini: what the routine
\* returns or that it raises, given the fetch it made and the history it is given
analyse(v, f, e, history) ==
  IF f.outcome = "raised" THEN [raised |-> TRUE, completed |-> FALSE, answer |-> Str("")]
  ELSE IF Unfetched(f)
  THEN [raised |-> FALSE, completed |-> FALSE, answer |-> Str("Unable to fetch user data.")]
  ELSE IF ContextRaises(v, history)
  THEN [raised |-> TRUE, completed |-> FALSE, answer |-> Str("")]
  ELSE IF e.completion = "ok"
  THEN [raised |-> FALSE, completed |-> TRUE,
        answer |-> IF ReturnsContentBlocks(v) THEN ContentBlocks("analysis") ELSE Str("analysis")]
  ELSE IF GuardsCompletion(v)
  THEN [raised |-> FALSE, completed |-> TRUE, answer |-> Str("Error analysing data")]
  ELSE [raised |-> TRUE, completed |-> TRUE, answer |-> Str("")]

----------------------------------------------------------------------------
(* Conversation manager *)

\* load_chat_history: [] when the file is missing; json.load raising is not caught
load_chat_history(files, u) ==
  LET f == files[get_history_path(u)]
      parsed == LoadsList(f.chunks)
  IN IF ~f.exists THEN [raises |-> FALSE, value |-> <<>>]
     ELSE IF ~parsed.ok THEN [raises |-> TRUE, value |-> <<>>]
     ELSE [raises |-> FALSE, value |-> parsed.value]

\* save_chat_history: the file after open(path, 'w') and json.dump(history)
save_chat_history(files, u, history, t, e) ==
  WriteFile(files, get_history_path(u),
            Written(DumpList(history).chunks, e.kill = "history", e.flushed), 0)

Turn(t, q, a) == [timestamp |-> isoformat(t), question |-> q, answer |-> a]

----------------------------------------------------------------------------
(* State *)

\* the fetch_user_data call of the handler that ran last: its arguments, what the
\* source did, the requests it sent, and how the completion call that followed it
\* went ("none" when there was no such call); for the question branch also the
\* statements of it that ran, in their order, and the turns of the history that
\* went into the prompt and what analyse returned (<<>> when it raised); cleared
\* when the next input is read
NoCall == [op |-> "none", force |-> FALSE, outcome |-> "none", remote |-> <<>>,
           probe |-> "ok", fault |-> "none", result |-> NoData, completion |-> "none",
           steps |-> <<>>, context |-> <<>>, answer |-> <<>>]

CallOf(force, e, f) ==
  [op |-> "fetch", force |-> force,
   outcome |-> f.outcome,
   remote |-> f.remote,
   probe |-> IF f.remote = <<>> THEN "ok" ELSE e.probe,
   fault |-> IF f.outcome = "fetched" THEN e.fault ELSE "none",
   result |-> f.result,
   completion |-> "none",
   steps |-> <<>>,
   context |-> <<>>,
   answer |-> <<>>]

\* the last fetch_user_data(force_refresh=False) call, when no call with
\* force_refresh=True came after it: when it was made, what it returned, and
\* whether the call before it was one of the same kind that returned a dataset
NoLast == [called |-> FALSE, at |-> 0, result |-> NoData, again |-> FALSE]

LastOf(prev, t, f) ==
  [called |-> TRUE, at |-> t, result |-> f.result, again |-> prev.called /\ prev.result.ok]

\* the environments a handler can tell apart: the parts of a run it never reaches
\* (the source on a cache hit, the completion call when no data came back, a kill
\* in a write that does not happen) are fixed
Reaches(v, check, e) ==
  /\ check # "miss" =>
        e.probe = "ok" /\ e.subs = <<>> /\ e.coms = <<>> /\ e.fault = "none" /\ e.kill # "cache"
  /\ ~UsesPraw(v) => e.coms = <<>> /\ e.fault = "none"
  /\ ~HasHistory(v) => e.kill # "history"
  /\ e.probe # "ok" => e.kill # "cache"
  /\ (check = "raise" \/ e.probe # "ok" \/ e.kill = "cache") => e.completion = "ok"

RefreshEnvs ==
  [v \in Variants |->
     {e \in Envs : Reaches(v, "miss", e) /\ e.kill # "history" /\ e.completion = "ok"}]

AnalyzingEnvs ==
  [v \in Variants |-> [check \in {"hit", "miss", "raise"} |-> {e \in Envs : Reaches(v, check, e)}]]

Init ==
  /\ variant \in Variants
  /\ now = 0
  /\ fs = [p \in Paths |-> Absent]
  /\ pc = "Idle"
  /\ username = ""
  /\ question = ""
  /\ chat_history = <<>>
  /\ call = NoCall
  /\ last = NoLast
  /\ fn = "none"
  /\ arg = <<>>
  /\ out = <<>>

----------------------------------------------------------------------------
(* main and the interactive loop *)

\* main -> interactive_analysis(username) up to the first prompt: the history is
\* loaded; a history file that does not parse ends the process with the exception
StartSession(u) ==
  /\ pc = "Idle"
  /\ LET h == IF HasHistory(variant) THEN load_chat_history(fs, u)
              ELSE [raises |-> FALSE, value |-> <<>>]
     IN /\ pc' = IF h.raises THEN "Crashed" ELSE "AwaitingQuestion"
        /\ chat_history' = h.value
  /\ username' = u
  /\ question' = ""
  /\ call' = NoCall
  /\ UNCHANGED <<fn, arg, out, variant, now, fs, last>>

\* question.lower() of the inputs of the model
Lower(s) == IF s = "EXIT" THEN "exit" ELSE s

Inputs == Commands \cup Questions \cup {"EXIT"}

\* the branch of the loop an input takes
Dispatch(v, inp) ==
  IF Lower(inp) = "exit" THEN "Exit"
  ELSE IF Lower(inp) = "refresh" /\ HasRefreshCommand(v) THEN "ForceRefresh"
  ELSE IF Lower(inp) = "history" /\ HasHistory(v) THEN "ShowHistory"
  ELSE IF Lower(inp) = "help" /\ HasHelpCommand(v) THEN "Help"
  ELSE "Analyzing"

\* one input at the prompt; 'exit' leaves interactive_analysis and its chat_history
ReadInput(inp, turns) ==
  /\ pc = "AwaitingQuestion"
  /\ Dispatch(variant, inp) = "Analyzing" => Len(chat_history) < turns
  /\ pc' = Dispatch(variant, inp)
  /\ question' = IF Dispatch(variant, inp) = "Analyzing" THEN inp ELSE ""
  /\ chat_history' = IF Dispatch(variant, inp) = "Exit" THEN <<>> ELSE chat_history
  /\ call' = NoCall
  /\ UNCHANGED <<fn, arg, out, variant, now, fs, username, last>>

\* the 'refresh' branch: fetch_user_data(username, force_refresh=True)
DoForceRefresh ==
  /\ pc = "ForceRefresh"
  /\ \E e \in RefreshEnvs[variant] :
     \E f \in {fetch_user_data(variant, fs, username, TRUE, now, e)} :
        /\ fs' = f.files
        /\ call' = CallOf(TRUE, e, f)
        /\ last' = NoLast
        /\ pc' = IF f.dead THEN "Dead" ELSE "AwaitingQuestion"
        /\ chat_history' = IF f.dead THEN <<>> ELSE chat_history
  /\ question' = ""
  /\ UNCHANGED <<fn, arg, out, variant, now, username>>

\* the 'history' branch prints the turns in memory; it is outside the try of the
\* loop, so the KeyError of an entry without a key leaves the loop and the process
DoShowHistory ==
  /\ pc = "ShowHistory"
  /\ LET printed == \A i \in 1..Len(chat_history) : HasKeys(chat_history[i])
     IN /\ pc' = IF printed THEN "AwaitingQuestion" ELSE "Crashed"
        /\ chat_history' = IF printed THEN chat_history ELSE <<>>
  /\ question' = ""
  /\ call' = NoCall
  /\ UNCHANGED <<fn, arg, out, variant, now, fs, username, last>>

\* the 'help' branch of reddit-analyser-complete-claude.py
DoHelp ==
  /\ pc = "Help"
  /\ pc' = "AwaitingQuestion"
  /\ question' = ""
  /\ call' = NoCall
  /\ UNCHANGED <<fn, arg, out, variant, now, fs, username, chat_history, last>>

\* the statements of the question branch that ran, in their order:
\* fetch_user_data, extract_post_data, the prompt with chat_history[-3:], the
\* completion call, chat_history.append
AnalyzingSteps(v, f, a, history) ==
  LET data == f.outcome # "raised" /\ f.result.ok
  IN <<"fetch">>
     \o (IF data THEN <<"digest">> ELSE <<>>)
     \o (IF data /\ ~ContextRaises(v, history) THEN <<"prompt">> ELSE <<>>)
     \o (IF a.completed THEN <<"completion">> ELSE <<>>)
     \o (IF ~f.dead /\ ~a.raised /\ HasHistory(v) THEN <<"append">> ELSE <<>>)

\* the question branch: analyse, append the turn, save the history, print
DoAnalyzing ==
  /\ pc = "Analyzing"
  /\ \E e \in AnalyzingEnvs[variant][CacheCheck(variant, fs, username, FALSE, now)] :
     \E f \in {fetch_user_data(variant, fs, username, FALSE, now, e)} :
     \E a \in {analyse(variant, f, e, chat_history)} :
     LET history == Append(chat_history, Turn(now, question, a.answer))
         dies == f.dead \/ (~a.raised /\ HasHistory(variant) /\ e.kill = "history")
         steps == AnalyzingSteps(variant, f, a, chat_history)
     IN /\ call' = [CallOf(FALSE, e, f) EXCEPT
                       !.completion = IF a.completed THEN e.completion ELSE "none",
                       !.steps = steps,
                       !.answer = IF f.dead \/ a.raised THEN <<>> ELSE a.answer,
                       !.context = IF \E i \in 1..Len(steps) : steps[i] = "prompt"
                                   THEN IF HasHistory(variant)
                                        THEN context_window(chat_history) ELSE <<>>
                                   ELSE <<>>]
        /\ last' = LastOf(last, now, f)
        /\ fs' = IF f.dead \/ a.raised \/ ~HasHistory(variant) THEN f.files
                 ELSE save_chat_history(f.files, username, history, now, e)
        /\ chat_history' = IF dies THEN <<>>
                           ELSE IF a.raised \/ ~HasHistory(variant) THEN chat_history
                           ELSE history
        /\ pc' = IF dies THEN "Dead" ELSE "AwaitingQuestion"
  /\ question' = ""
  /\ UNCHANGED <<fn, arg, out, variant, now, username>>

\* the process is killed while it waits at the prompt
Kill ==
  /\ pc = "AwaitingQuestion"
  /\ pc' = "Dead"
  /\ chat_history' = <<>>
  /\ question' = ""
  /\ call' = NoCall
  /\ UNCHANGED <<fn, arg, out, variant, now, fs, username, last>>

\* the program is started again (or main asks for the next username)
Restart ==
  /\ pc \in {"Exit", "Dead", "Crashed"}
  /\ pc' = "Idle"
  /\ username' = ""
  /\ chat_history' = <<>>
  /\ question' = ""
  /\ call' = NoCall
  /\ UNCHANGED <<fn, arg, out, variant, now, fs, last>>

\* the wall clock advances
Tick(d) ==
  /\ now + d <= MaxNow
  /\ now' = now + d
  /\ UNCHANGED <<fn, arg, out, variant, fs, pc, username, question, chat_history, call, last>>

Handlers ==
  \/ \E u \in Users : StartSession(u)
  \/ DoForceRefresh
  \/ DoShowHistory
  \/ DoHelp
  \/ DoAnalyzing
  \/ Kill
  \/ Restart
  \/ \E d \in TickHours : Tick(d)

Next ==
  \/ \E inp \in Inputs : ReadInput(inp, MaxTurns)
  \/ Handlers

Spec == Init /\ [][Next]_vars

\* the same program with room for a second turn in the history
NextLong ==
  \/ \E inp \in Inputs : ReadInput(inp, LongTurns)
  \/ Handlers

SpecLong == Init /\ [][NextLong]_vars

\* A session next to a history file that is already on disk: a list of entries as
\* json.load returns them, an entry being a dict with or without 'question'
InitSession ==
  /\ variant \in Variants
  /\ now = 0
  /\ \E u \in Users :
     \E h \in SeqsUpTo({Turn(0, q, Str("analysis")) : q \in Questions}
                        \cup {[timestamp |-> isoformat(0), answer |-> Str("analysis")]},
                      MaxFound) :
        fs = IF h = <<>> THEN [p \in Paths |-> Absent]
             ELSE WriteFile([p \in Paths |-> Absent], get_history_path(u),
                            DumpList(h).chunks, 0)
  /\ pc = "Idle"
  /\ username = ""
  /\ question = ""
  /\ chat_history = <<>>
  /\ call = NoCall
  /\ last = NoLast
  /\ fn = "none"
  /\ arg = <<>>
  /\ out = <<>>

\* a handler that was entered runs to its end: the capabilities it calls return
SpecSession ==
  /\ InitSession
  /\ [][NextLong]_vars
  /\ WF_vars(DoForceRefresh)
  /\ WF_vars(DoShowHistory)
  /\ WF_vars(DoHelp)
  /\ WF_vars(DoAnalyzing)

----------------------------------------------------------------------------
(* What the claims speak about *)

\* the cache file of the user of the session
Stored == fs[get_cache_path(username)]
EntryStored == Stored.exists /\ LoadsDict(Stored.chunks).ok
\* hours since the stored dataset was fetched
EntryAge == now - Stored.mtime
FreshnessWindow == HoursPerDay * FreshDays

\* the step in which the question branch, or the question or 'refresh' branch, runs:
\* both call fetch_user_data once
AnalyzingStep == pc = "Analyzing" /\ pc' # pc
FetchStep == pc \in {"Analyzing", "ForceRefresh"} /\ pc' # pc
CacheUntouched == fs'[get_cache_path(username)] = fs[get_cache_path(username)]

----------------------------------------------------------------------------
(* C1 *)

\* C1: fetch_user_data(user, force_refresh=false) on a stored entry younger than
\* 24 hours returns exactly the stored dataset, sends no request to the remote
\* source and leaves the cache file as it was.
C1_FreshEntryServedUntouched ==
  [][(AnalyzingStep /\ EntryStored /\ EntryAge < FreshnessWindow)
       => /\ call'.outcome = "hit"
          /\ call'.remote = <<>>
          /\ call'.result = Data(LoadsDict(Stored.chunks).value)
          /\ CacheUntouched]_vars

\* a question was answered from an entry that is 23 hours old
C1_Witness ==
  /\ pc = "AwaitingQuestion"
  /\ call.op = "fetch" /\ ~call.force /\ call.outcome = "hit" /\ call.result.ok
  /\ EntryStored /\ EntryAge = 23

----------------------------------------------------------------------------
(* C2 *)

\* C2: a stored dataset is reused by fetch_user_data(force_refresh=false) if and
\* only if it is younger than 24 hours; an older one is treated as stale and a
\* remote refetch is started.
C2_ReusedIffYoungerThanADay ==
  [][(AnalyzingStep /\ EntryStored)
       => IF EntryAge < FreshnessWindow
          THEN call'.outcome = "hit"
          ELSE call'.outcome # "hit" /\ call'.remote # <<>>]_vars

----------------------------------------------------------------------------
(* C3 *)

\* C3 as stated: a second fetch_user_data(U, force=false) within 24 hours of the
\* first, with no force=true call between them, sends no remote request and
\* returns what the first call returned, whatever the first call returned.
C3_SecondCallRepeatsFirst ==
  [][(AnalyzingStep /\ last.called /\ now - last.at < FreshnessWindow)
       => call'.remote = <<>> /\ call'.result = last.result]_vars

\* C3: when the first fetch_user_data(U, force=false) returned a dataset and the
\* second one, with no force=true call between them, is made less than 24 hours
\* after the fetch time of that dataset, the second call sends no remote request
\* and returns data identical to what the first call returned.
C3_SecondCallServedFromCache ==
  [][(AnalyzingStep /\ last.called /\ last.result.ok /\ EntryAge < FreshnessWindow)
       => /\ call'.outcome = "hit"
          /\ call'.remote = <<>>
          /\ call'.result = last.result]_vars

\* the second of two such calls has returned, hours after the first one fetched
C3_Witness ==
  /\ pc = "AwaitingQuestion"
  /\ call.op = "fetch" /\ ~call.force /\ call.outcome = "hit"
  /\ last.called /\ last.again /\ last.result.ok
  /\ EntryAge > 0

----------------------------------------------------------------------------
(* C4 *)

\* C4: when the probe, the submissions listing or the comments listing fails
\* during a refetch, fetch_user_data returns no data and the cache file is left
\* exactly as it was.
C4_FailedRefetchLeavesCache ==
  [][(FetchStep /\ (call'.probe = "error" \/ call'.fault # "none"))
       => ~call'.result.ok /\ CacheUntouched]_vars

----------------------------------------------------------------------------
(* C5 *)

\* C5: for a username the source does not know, the failure is found by the
\* existence probe before any listing is requested, fetch_user_data returns no
\* data, and the cache file of the username is neither created nor changed.
C5_UnknownUserLeavesCache ==
  [][(FetchStep /\ call'.probe = "notfound")
       => /\ ~call'.result.ok
          /\ call'.outcome = "failed"
          /\ call'.remote = IF UsesPraw(variant) THEN <<"probe">> ELSE <<"get">>
          /\ CacheUntouched]_vars

\* the probe found no such user while an entry of an earlier fetch is stored
C5_Witness ==
  /\ pc = "AwaitingQuestion"
  /\ call.op = "fetch" /\ call.probe = "notfound" /\ ~call.result.ok
  /\ EntryStored

----------------------------------------------------------------------------
(* C6 *)

\* C6: on a cache file with invalid content the load returns absent instead of
\* raising, and fetch_user_data(force=false) refetches from the remote source.
C6_CorruptCacheRefetched ==
  [][(AnalyzingStep /\ Stored.exists /\ ~LoadsDict(Stored.chunks).ok)
       => /\ ~load_cached_data(fs, username).raises
          /\ call'.outcome # "raised"
          /\ call'.remote # <<>>]_vars

----------------------------------------------------------------------------
(* C7 *)

\* C7: on a malformed history file load_history gives the empty history and the
\* session starts as if there were no history.
C7_CorruptHistoryStartsEmpty ==
  [][(pc = "Idle" /\ pc' # "Idle" /\ HasHistory(variant)
        /\ fs[get_history_path(username')].exists
        /\ ~LoadsList(fs[get_history_path(username')].chunks).ok)
       => pc' = "AwaitingQuestion" /\ chat_history' = <<>>]_vars

----------------------------------------------------------------------------
(* C8 *)

\* C8: at every moment, also when the process stops inside save_to_cache, the
\* cache file of a username holds a complete dataset: a reader never finds a
\* partial one.
C8_CacheFileAlwaysComplete ==
  \A u \in Users :
    fs[get_cache_path(u)].exists => LoadsDict(fs[get_cache_path(u)].chunks).ok

----------------------------------------------------------------------------
(* C9, C10 *)

\* every turn the history file of u held in `before` is at its place in `after`
TurnsKept(before, after, u) ==
  LET b == load_chat_history(before, u)
      a == load_chat_history(after, u)
  IN ~b.raises =>
       \A i \in 1..Len(b.value) :
          ~a.raises /\ i <= Len(a.value) /\ a.value[i] = b.value[i]

\* C9: when the process is stopped during or right after the append of a turn,
\* the persisted history still holds every turn persisted before the append.
C9_InterruptedAppendKeepsTurns ==
  [][(pc = "Analyzing" /\ pc' = "Dead") => TurnsKept(fs, fs', username)]_vars

\* C10: across the session operations (questions, history, refresh, exit, new
\* sessions) the persisted history after an operation has the persisted history
\* before it as a prefix.
C10_HistoryAppendOnly ==
  [][pc' # "Dead" => \A u \in Users : TurnsKept(fs, fs', u)]_vars

----------------------------------------------------------------------------
(* The routines on their own: a routine is applied once to an argument drawn *)
(* from the families below                                                   *)

\* subreddit names, and a record of the source in subreddit i
Label(i) == <<"r", i>>
RecordIn(i) == [subreddit |-> Label(i), score |-> 1]

\* every stream of up to MaxStream records over a few subreddits
ShortStreams == SeqsUpTo({RecordIn(i) : i \in {1, 2, 3}}, MaxStream)

\* a stream cut into the submissions and the comments of a user.  The streams are
\* the short ones and those with more subreddits than a top-K list holds: n
\* subreddits in turn, then up to MaxTail further records in the first and the
\* last of them
ActivityArgs ==
  LET LongStreamsOf(n) ==
        {[i \in 1..n |-> RecordIn(i)] \o tail :
           tail \in SeqsUpTo({RecordIn(1), RecordIn(n)}, MaxTail)}
      LongStreams == UNION {LongStreamsOf(n) : n \in TopKComplete..(TopKDefault + 1)}
      Cuts(stream) ==
        {[kind |-> "activity",
          subs |-> SubSeq(stream, 1, k),
          coms |-> SubSeq(stream, k + 1, Len(stream))] : k \in 0..Len(stream)}
  IN UNION {Cuts(stream) : stream \in ShortStreams \cup LongStreams}

\* the dataset fetch_user_data builds from an activity
DatasetOf(v, a) ==
  IF UsesPraw(v)
  THEN BuildData(v, "alice", 0, fetch_all(v, "submission", a.subs),
                                fetch_all(v, "comment", a.coms))
  ELSE Listing(a.subs)

\* a run in which nothing fails and nothing is killed
QuietEnv == [probe |-> "ok", subs |-> <<>>, coms |-> <<>>, fault |-> "none",
             kill |-> "none", flushed |-> 0, completion |-> "ok"]

\* histories of up to MaxHistory turns, the i-th asked at hour i
HistoryArgs ==
  LET AskedQuestions == {"what are their hobbies", "where do they live"}
      HistoryOf(qs) == [i \in 1..Len(qs) |-> Turn(i, qs[i], Str("analysis"))]
  IN {[kind |-> "history", history |-> HistoryOf(qs)] :
        qs \in SeqsUpTo(AskedQuestions, MaxHistory)}

\* ---- Digest builder: extract_post_data ----

DigestItemsComplete == 25
DigestItemsDefault == 50
ExcerptChars == 500
max_items(v) == IF v = "complete-claude" THEN DigestItemsComplete ELSE DigestItemsDefault

\* the keys read as record[key], which raises KeyError for a missing key
SubmissionKeys(v) ==
  IF v = "complete-claude" THEN {"created_utc", "title", "subreddit"}
  ELSE IF WrapsRecords(v)
  THEN {"created_utc", "title", "selftext", "subreddit", "score", "upvote_ratio", "num_comments"}
  ELSE {"created_utc", "title", "selftext", "subreddit", "score", "num_comments"}
CommentKeys(v) ==
  IF v = "complete-claude" THEN {"created_utc", "subreddit", "body"}
  ELSE {"created_utc", "subreddit", "body", "score"}

\* submission['data'] of the wrapped records; a record without it gives KeyError
\* like a record without any key
FieldsOf(v, item) ==
  IF WrapsRecords(v) THEN Get(item, "data", <<>>) ELSE item

\* the records of a listing with their places in it
Indexed(items) == [i \in 1..Len(items) |-> [pos |-> i, rec |-> items[i]]]

\* sorted(items, key=lambda x: x.get('score', 0), reverse=True), which is stable:
\* a record comes after those of higher score and those of equal score before it
SortedByScore(items) ==
  LET key(i) == Get(items[i].rec, "score", 0)
      place(i) == 1 + Cardinality({j \in 1..Len(items) :
                                     key(j) > key(i) \/ (key(j) = key(i) /\ j < i)})
  IN [k \in 1..Len(items) |-> items[CHOOSE i \in 1..Len(items) : place(i) = k]]

\* the records a section shows: the max_items of highest score in
\* reddit-analyser-complete-claude.py, the first 50 of the listing elsewhere
Selected(v, items) ==
  IF v = "complete-claude"
  THEN Take(SortedByScore(Indexed(items)), max_items(v))
  ELSE Take(Indexed(items), max_items(v))

SubmissionExcerpt(v, e) ==
  LET r == FieldsOf(v, e.rec)
  IN [pos |-> e.pos,
      title |-> r.title,
      content |-> IF v = "complete-claude"
                  THEN IF Get(r, "selftext", NoText).len > 0
                       THEN Cut(r.selftext, ExcerptChars) ELSE NoText
                  ELSE r.selftext,
      score |-> Get(r, "score", 0)]

CommentExcerpt(v, e) ==
  LET r == FieldsOf(v, e.rec)
  IN [pos |-> e.pos,
      title |-> NoText,
      content |-> IF v = "complete-claude" THEN Cut(r.body, ExcerptChars) ELSE r.body,
      score |-> Get(r, "score", 0)]

\* the OVERVIEW part: username, totals, the subreddit list
DigestHeader_CountsFromOne(v, data) ==
  [username |-> data.username,
   total_submissions |-> data.statistics.total_submissions + 1,
   total_comments |-> data.statistics.total_comments + 1,
   subreddits |-> data.statistics.top_subreddits]
DigestHeader(v, data) ==
  [username |-> data.username,
   total_submissions |-> data.statistics.total_submissions,
   total_comments |-> data.statistics.total_comments,
   subreddits |-> IF v = "complete-claude"
                  THEN Take(data.statistics.top_subreddits, TopKComplete)
                  ELSE data.statistics.top_subreddits]

\* persona.py: extract_post_data keeps the children that have 'data', every field
\* read with .get; analyse_with_claude writes all of them into the prompt
PersonaPosts(data) ==
  IF Has(data, "data") /\ Has(data.data, "children")
  THEN LET kept == SelectSeq(Indexed(data.data.children), LAMBDA e : Has(e.rec, "data"))
       IN [i \in 1..Len(kept) |->
             [pos |-> kept[i].pos,
              title |-> Get(kept[i].rec.data, "title", NoText),
              content |-> Get(kept[i].rec.data, "selftext", NoText),
              score |-> Get(kept[i].rec.data, "score", 0)]]
  ELSE <<>>

\* extract_post_data(data): the digest, or that building it raises
extract_post_data(v, data) ==
  IF ~UsesPraw(v)
  THEN [raises |-> FALSE, header |-> <<>>, submissions |-> PersonaPosts(data), comments |-> <<>>]
  ELSE IF ~({"username", "statistics", "submissions", "comments"} \subseteq DOMAIN data)
  THEN [raises |-> TRUE, header |-> <<>>, submissions |-> <<>>, comments |-> <<>>]
  ELSE LET Raised == [raises |-> TRUE, header |-> <<>>, submissions |-> <<>>, comments |-> <<>>]
           subs == Selected(v, data.submissions)
           coms == Selected(v, data.comments)
           bad == \/ \E i \in 1..Len(subs) :
                       ~(SubmissionKeys(v) \subseteq DOMAIN FieldsOf(v, subs[i].rec))
                  \/ \E i \in 1..Len(coms) :
                       ~(CommentKeys(v) \subseteq DOMAIN FieldsOf(v, coms[i].rec))
       IN IF bad THEN Raised
          ELSE [raises |-> FALSE,
                header |-> DigestHeader(v, data),
                submissions |-> [i \in 1..Len(subs) |-> SubmissionExcerpt(v, subs[i])],
                comments |-> [i \in 1..Len(coms) |-> CommentExcerpt(v, coms[i])]]

\* datetime.fromtimestamp(created_utc) without a tz argument: the wall-clock time
\* of the machine's own zone, which is utcoffset hours ahead of UTC
fromtimestamp(created_utc, utcoffset) == created_utc + utcoffset
\* .strftime('%Y-%m-%d'): the calendar day the wall-clock time falls on
strftime(wallclock) == <<"date", wallclock \div HoursPerDay>>

\* the "Date:" lines of the two sections of the digest, in the order of the
\* sections' records, as extract_post_data writes them on a machine whose zone is
\* utcoffset hours ahead of UTC
DigestDates(v, data, utcoffset) ==
  LET DateOf(e) == strftime(fromtimestamp(FieldsOf(v, e.rec).created_utc, utcoffset))
      subs == Selected(v, data.submissions)
      coms == Selected(v, data.comments)
  IN [submissions |-> [i \in 1..Len(subs) |-> DateOf(subs[i])],
      comments |-> [i \in 1..Len(coms) |-> DateOf(coms[i])]]

\* ---- the datasets a digest is built of ----

Submission(i, score, titleLen, textLen) ==
  [title |-> Text(i, titleLen), selftext |-> Text(i, textLen), subreddit |-> Label(1),
   score |-> score, upvote_ratio |-> 1, created_utc |-> i, num_comments |-> 0]
Comment(i, score, bodyLen) ==
  [body |-> Text(i, bodyLen), subreddit |-> Label(1), score |-> score, created_utc |-> i]

\* the listings a digest is built of: up to MaxRecords records with every pattern
\* of scores; listings about as long as a section may get, one record of them
\* scored higher; equal records with texts of every length; one record that lacks
\* a field.  writer is the program that fetched the dataset and wrote it to
\* reddit_cache, the directory all five share; "same" when it is the program that
\* builds the digest
RecordArgs ==
  LET Without(r, k) == [x \in DOMAIN r \ {k} |-> r[x]]
      Scores == {1, 2}
      TextLens == {0, ExcerptChars, ExcerptChars + 1, MaxText}
      ScoredSubmissions ==
        {[i \in 1..Len(sc) |-> Submission(i, sc[i], 1, 1)] : sc \in SeqsUpTo(Scores, MaxRecords)}
      ScoredComments ==
        {[i \in 1..Len(sc) |-> Comment(i, sc[i], 1)] : sc \in SeqsUpTo(Scores, MaxRecords)}
      FullCounts ==
        UNION {{m + x : x \in 0..MaxExtra} : m \in {DigestItemsComplete, DigestItemsDefault}}
      Peaks(n) == {0, 1, n}
      FullSubmissions ==
        UNION {{[i \in 1..n |-> Submission(i, IF i = hi THEN 2 ELSE 1, 1, 1)] : hi \in Peaks(n)} :
                 n \in FullCounts}
      FullComments ==
        UNION {{[i \in 1..n |-> Comment(i, IF i = hi THEN 2 ELSE 1, 1)] : hi \in Peaks(n)} :
                 n \in FullCounts}
      LongSubmissions ==
        {[i \in 1..n |-> Submission(i, 1, tl, sl)] :
           n \in 1..MaxRecords, tl \in TextLens, sl \in TextLens}
      LongComments ==
        {[i \in 1..n |-> Comment(i, 1, bl)] : n \in 1..MaxRecords, bl \in TextLens}
      MissableKeys == {"title", "selftext", "body", "score", "created_utc", "num_comments"}
      SparseSubmissions ==
        {<<Without(Submission(1, 1, 1, 1), k)>> :
           k \in MissableKeys \cap DOMAIN Submission(1, 1, 1, 1)}
      SparseComments ==
        {<<Without(Comment(1, 1, 1), k)>> : k \in MissableKeys \cap DOMAIN Comment(1, 1, 1)}
      Records(writer, subs, coms) ==
        [kind |-> "records", writer |-> writer, subs |-> subs, coms |-> coms, utcoffset |-> 0]
      Created == {0, HoursPerDay - 1, HoursPerDay}
  IN {Records("same", subs, coms) : subs \in ScoredSubmissions, coms \in ScoredComments}
     \cup {Records("same", subs, <<>>) :
             subs \in FullSubmissions \cup LongSubmissions \cup SparseSubmissions}
     \cup {Records("same", <<>>, coms) :
             coms \in FullComments \cup LongComments \cup SparseComments}
     \cup {Records(w, <<Submission(1, 1, 1, 1)>>, <<Comment(1, 1, 1)>>) :
             w \in Variants \ {"persona"}}
     \cup {[Records("same", <<[Submission(1, 1, 1, 1) EXCEPT !.created_utc = c]>>,
                            <<[Comment(1, 1, 1) EXCEPT !.created_utc = c]>>)
               EXCEPT !.utcoffset = z] :
             c \in Created, z \in (0 - MaxOffset)..MaxOffset}

\* the dataset the writer's fetch_user_data builds of the records
DigestDataset(v, a) ==
  LET w == IF a.writer = "same" THEN v ELSE a.writer
  IN IF UsesPraw(w)
     THEN BuildData(w, "alice", 0, fetch_all(w, "submission", a.subs),
                                   fetch_all(w, "comment", a.coms))
     ELSE Listing(Children(a.subs))

\* what the two listings of a user deliver: nothing, a few records, and about as
\* many as new(limit=100) asks for; record i was created at time i
ListingArgs ==
  LET Counts == {0, 2, ListingLimit, ListingLimit + MaxExtra}
  IN {[kind |-> "listing",
       subs |-> [i \in 1..n |-> Submission(i, 1, 1, 1)],
       coms |-> [i \in 1..m |-> Comment(i, 1, 1)]] : n \in Counts, m \in Counts}

\* ---- usernames as they are typed: main and the two path routines ----

\* a username is given by its segments between '/': "bob" is <<"bob">>,
\* "../chat_history/bob" is <<"..", "chat_history", "bob">>, '' is <<"">>
PlainNames == {"alice", "bob", "bob_history"}
NameArgs ==
  {[kind |-> "name", name |-> n] :
     n \in {<<p>> : p \in PlainNames}
            \cup {<<"">>, <<".", "bob">>, <<"..", history_dir, "bob">>, <<"..", cache_dir, "alice">>}}

\* the file a path names once '.' and '..' are followed
RECURSIVE Resolve(_, _)
Resolve(path, acc) ==
  IF path = <<>> THEN acc
  ELSE IF Head(path) = "." THEN Resolve(Tail(path), acc)
  ELSE IF Head(path) = ".."
  THEN Resolve(Tail(path), IF acc = <<>> THEN acc ELSE SubSeq(acc, 1, Len(acc) - 1))
  ELSE Resolve(Tail(path), Append(acc, Head(path)))

\* the file open(os.path.join(directory, f"{username}{suffix}")) opens
FileOf(directory, name, suffix) ==
  Resolve(<<directory>> \o SubSeq(name, 1, Len(name) - 1)
                        \o <<name[Len(name)] \o suffix>>, <<>>)

\* main: reddit-analyser-shell-gemini.py asks again for an empty username and for
\* one that is not alphanumeric once '_' and '-' are taken out; the other programs
\* start the session for whatever was typed or passed on the command line
main(v, name) ==
  LET plain == Len(name) = 1 /\ name[1] \in PlainNames
  IN [session |-> v = "shell-gemini" => plain,
      cache |-> FileOf(cache_dir, name, ".json"),
      history |-> FileOf(history_dir, name, "_history.json")]

\* ---- the constructor ----

\* what is found in ../../keys at startup: the API key file, and
\* reddit-credentials.json (which persona.py does not read)
KeyArgs ==
  {[kind |-> "keys", key |-> k, creds |-> c] :
     k \in {"ok", "missing", "empty"}, c \in {"ok", "missing", "malformed", "incomplete"}}

RedditPersonalityAnalyser_DirsFirst(v, a) ==
  [raises |-> a.key # "ok" \/ (UsesPraw(v) /\ a.creds # "ok"),
   made |-> {cache_dir, history_dir}]
\* RedditPersonalityAnalyser(): the credentials are read first and an exception
\* leaves the constructor before the two directories are made; persona.py does
\* not test the key for being empty
RedditPersonalityAnalyser(v, a) ==
  LET raises == \/ a.key = "missing"
                \/ a.key = "empty" /\ UsesPraw(v)
                \/ a.creds # "ok" /\ UsesPraw(v)
  IN [raises |-> raises,
      made |-> IF raises THEN {} ELSE {cache_dir, history_dir}]

\* ---- the options of main ----

\* what main is given besides the username: --refresh and --limit N of
\* reddit-analyzer-claude.py (limit is <<>> for the default None), the answer to
\* "Force refresh user data? (y/N)" of reddit-analyser-shell-gemini.py; cached
\* tells whether a fresh cache entry of the user is found, records how many
\* submissions and comments the source has of the user
OptionArgs ==
  {[kind |-> "options", refresh |-> r, limit |-> l, cached |-> c, records |-> n] :
     r \in BOOLEAN, l \in {<<>>} \cup {<<k>> : k \in 1..MaxLimit}, c \in BOOLEAN,
     n \in 0..(MaxLimit + 1)}

Args == ActivityArgs \cup HistoryArgs \cup RecordArgs \cup ListingArgs \cup NameArgs \cup KeyArgs
          \cup OptionArgs

InitPure ==
  /\ variant \in Variants
  /\ now = 0
  /\ fs = [p \in Paths |-> Absent]
  /\ pc = "Idle"
  /\ username = ""
  /\ question = ""
  /\ chat_history = <<>>
  /\ call = NoCall
  /\ last = NoLast
  /\ fn = "none"
  /\ arg \in Args
  /\ out = <<>>

\* save_to_cache(username, data) followed by load_cached_data(username)
SaveThenLoad ==
  /\ fn = "none"
  /\ arg.kind = "activity"
  /\ LET data == DatasetOf(variant, arg)
         files == save_to_cache(variant, fs, "alice", data, now, QuietEnv)
     IN /\ fs' = files
        /\ out' = [saved |-> data, loaded |-> load_cached_data(files, "alice")]
  /\ fn' = "save_then_load"
  /\ UNCHANGED <<arg, variant, now, pc, username, question, chat_history, call, last>>

\* the lines made of chat_history[-3:] for the prompt
PreviousQA(entry) == [q |-> entry.question, a |-> entry.answer]
history_context(history) ==
  [i \in 1..Len(context_window(history)) |-> PreviousQA(context_window(history)[i])]

\* the history part of the prompt of analyse_with_claude / _groq / _gemini
BuildContext ==
  /\ fn = "none"
  /\ arg.kind = "history"
  /\ HasHistory(variant)
  /\ out' = history_context(arg.history)
  /\ fn' = "history_context"
  /\ UNCHANGED <<arg, variant, now, fs, pc, username, question, chat_history, call, last>>

\* the statistics step of fetch_user_data on the two listings
Aggregate ==
  /\ fn = "none"
  /\ arg.kind = "activity"
  /\ UsesPraw(variant)
  /\ out' = top_subreddits(variant, fetch_all(variant, "submission", arg.subs),
                                    fetch_all(variant, "comment", arg.coms))
  /\ fn' = "top_subreddits"
  /\ UNCHANGED <<arg, variant, now, fs, pc, username, question, chat_history, call, last>>

\* formatted_data = self.extract_post_data(data) on a dataset
BuildDigest ==
  /\ fn = "none"
  /\ arg.kind = "records"
  /\ LET data == DigestDataset(variant, arg)
         digest == extract_post_data(variant, data)
     IN out' = [raises |-> digest.raises, header |-> digest.header,
                submissions |-> digest.submissions, comments |-> digest.comments,
                dates |-> IF UsesPraw(variant) /\ ~digest.raises
                          THEN DigestDates(variant, data, arg.utcoffset)
                          ELSE [submissions |-> <<>>, comments |-> <<>>]]
  /\ fn' = "extract_post_data"
  /\ UNCHANGED <<arg, variant, now, fs, pc, username, question, chat_history, call, last>>

\* fetch_user_data(username, force_refresh=True) when nothing fails
Refetch ==
  /\ fn = "none"
  /\ arg.kind = "listing"
  /\ out' = fetch_user_data(variant, fs, "alice", TRUE, now,
                            [QuietEnv EXCEPT !.subs = arg.subs, !.coms = arg.coms])
  /\ fn' = "fetch_user_data"
  /\ UNCHANGED <<arg, variant, now, fs, pc, username, question, chat_history, call, last>>

\* main is given a username: whether the session starts, and the cache file and
\* the history file the session then works on
EnterUsername ==
  /\ fn = "none"
  /\ arg.kind = "name"
  /\ out' = main(variant, arg.name)
  /\ fn' = "main"
  /\ UNCHANGED <<arg, variant, now, fs, pc, username, question, chat_history, call, last>>

\* interactive_analysis up to its prompt: the analyser is constructed first, and
\* an exception of the constructor leaves interactive_analysis and ends the process
Construct ==
  /\ fn = "none"
  /\ arg.kind = "keys"
  /\ \E made \in {RedditPersonalityAnalyser(variant, arg)} :
        out' = [raises |-> made.raises, made |-> made.made,
                prompt |-> ~made.raises, remote |-> <<>>]
  /\ fn' = "RedditPersonalityAnalyser"
  /\ UNCHANGED <<arg, variant, now, fs, pc, username, question, chat_history, call, last>>

\* main with options, up to the first data fetch of the session: the options are
\* parsed (asked for), interactive_analysis(username) is called without them, and
\* the fetch of the first question is fetch_user_data(username) with the default
\* force_refresh=False; the listings are asked with new(limit=None)
StartWithOptions ==
  /\ fn = "none"
  /\ arg.kind = "options"
  /\ variant \in {"analyzer-claude", "shell-gemini"}
  /\ LET found == IF arg.cached
                  THEN save_to_cache(variant, fs, "alice",
                                     BuildData(variant, "alice", now, <<>>, <<>>), now, QuietEnv)
                  ELSE fs
         source == [QuietEnv EXCEPT
                      !.subs = [i \in 1..arg.records |-> Submission(i, 1, 1, 1)],
                      !.coms = [i \in 1..arg.records |-> Comment(i, 1, 1)]]
     IN out' = fetch_user_data(variant, found, "alice", FALSE, now, source)
  /\ fn' = "interactive_analysis"
  /\ UNCHANGED <<arg, variant, now, fs, pc, username, question, chat_history, call, last>>

NextPure ==
  \/ StartWithOptions
  \/ Construct
  \/ EnterUsername
  \/ Refetch
  \/ SaveThenLoad
  \/ BuildContext
  \/ Aggregate
  \/ BuildDigest

SpecPure == InitPure /\ [][NextPure]_vars

----------------------------------------------------------------------------
(* C11 *)

\* C11: load_cached_data after save_to_cache for the same username gives a dataset
\* equal to the saved one in every field, the order of the records and of the
\* top_subreddits mapping included, for any number of records, zero too.
C11_SaveLoadRoundTrip ==
  fn = "save_then_load"
    => /\ ~out.loaded.raises
       /\ out.loaded.found
       /\ out.loaded.value = out.saved

\* a dataset with submissions, comments and several subreddits came back
C11_Witness ==
  /\ fn = "save_then_load"
  /\ UsesPraw(variant)
  /\ out.saved.submissions # <<>> /\ out.saved.comments # <<>>
  /\ Len(out.saved.statistics.top_subreddits) >= 2
  /\ out.loaded.found
  /\ out.loaded.value.statistics.top_subreddits = out.saved.statistics.top_subreddits

----------------------------------------------------------------------------
(* C12 *)

\* C12: the history part of a prompt holds exactly min(3, len(history)) turns,
\* they are the most recent turns, and they stand in stored order, for every
\* length of the history, 0 too.
C12_ContextIsLastThree ==
  fn = "history_context"
    => /\ Len(out) = Min(3, Len(arg.history))
       /\ \A i \in 1..Len(out) :
            out[i] = PreviousQA(arg.history[Len(arg.history) - Len(out) + i])

\* a history longer than the window was cut to its last three turns
C12_Witness ==
  /\ fn = "history_context"
  /\ Len(arg.history) = 4
  /\ Len(out) = 3
  /\ arg.history[1].question # arg.history[4].question
  /\ out[3].q = arg.history[4].question

----------------------------------------------------------------------------
(* C13 *)

\* the merged stream of an activity, and what is true of a subreddit in it
Merged(a) == a.subs \o a.coms
LabelsOf(stream) == {stream[i].subreddit : i \in 1..Len(stream)}
Occurrences(stream, l) == Cardinality({i \in 1..Len(stream) : stream[i].subreddit = l})
FirstSeen(stream, l) ==
  CHOOSE i \in 1..Len(stream) :
    stream[i].subreddit = l /\ \A j \in 1..(i - 1) : stream[j].subreddit # l

\* entry p of a ranking stands rightly before entry q
RanksBefore(stream, p, q) ==
  \/ p[2] > q[2]
  \/ p[2] = q[2] /\ FirstSeen(stream, p[1]) < FirstSeen(stream, q[1])

\* C13: top_subreddits lists the first K (5 or 10) subreddits of the merged stream
\* of submissions then comments, ranked by count descending with equal counts in
\* first-seen order: the listed counts are the true counts, and no omitted
\* subreddit ranks before a listed one.
C13_TopSubredditsRanked ==
  fn = "top_subreddits"
    => LET m == Merged(arg)
           K == IF variant = "complete-claude" THEN 5 ELSE 10
           listed == {out[i][1] : i \in 1..Len(out)}
       IN /\ Len(out) = Min(K, Cardinality(LabelsOf(m)))
          /\ Cardinality(listed) = Len(out)
          /\ listed \subseteq LabelsOf(m)
          /\ \A i \in 1..Len(out) : out[i][2] = Occurrences(m, out[i][1])
          /\ \A i, j \in 1..Len(out) : i < j => RanksBefore(m, out[i], out[j])
          /\ \A l \in LabelsOf(m) \ listed : \A i \in 1..Len(out) :
               RanksBefore(m, out[i], <<l, Occurrences(m, l)>>)

\* eleven subreddits, the last one posted in most: it is listed first, equal
\* counts follow in first-seen order, and one subreddit is left out
C13_Witness ==
  /\ fn = "top_subreddits"
  /\ Cardinality(LabelsOf(Merged(arg))) > Len(out)
  /\ Len(out) >= 5
  /\ out[1][2] > out[2][2]
  /\ out[2][2] = out[3][2]
  /\ FirstSeen(Merged(arg), out[1][1]) > FirstSeen(Merged(arg), out[2][1])
  /\ arg.subs # <<>> /\ arg.coms # <<>>

----------------------------------------------------------------------------
(* C14 *)

\* the stream with the records at i and i + 1 exchanged
Swap(stream, i) ==
  [k \in 1..Len(stream) |->
     IF k = i THEN stream[i + 1] ELSE IF k = i + 1 THEN stream[i] ELSE stream[k]]

\* the subreddits of a stream in the order of their first occurrence
RECURSIVE FirstSeenOrder(_, _)
FirstSeenOrder(stream, acc) ==
  IF stream = <<>> THEN acc
  ELSE FirstSeenOrder(Tail(stream),
         IF \E i \in 1..Len(acc) : acc[i] = Head(stream).subreddit THEN acc
         ELSE Append(acc, Head(stream).subreddit))

\* other orders of the same records that keep the order of the first occurrences:
\* those one exchange of neighbours away, and every such order of a short stream
Reorderings(stream) ==
  LET same(t) == /\ Len(t) = Len(stream)
                 /\ \A l \in LabelsOf(stream) \cup LabelsOf(t) :
                      Occurrences(t, l) = Occurrences(stream, l)
                 /\ FirstSeenOrder(t, <<>>) = FirstSeenOrder(stream, <<>>)
  IN {t \in {Swap(stream, i) : i \in 1..(Len(stream) - 1)} \cup ShortStreams : same(t)}

\* C14: two orders of the same multiset of subreddit labels in which the first
\* occurrences of the labels come in the same order give the same top-K ranking:
\* the same labels with the same counts in the same order.
C14_RankingOrderStable ==
  fn = "top_subreddits"
    => \A t \in Reorderings(Merged(arg)) :
         top_subreddits(variant, fetch_all(variant, "submission", t), <<>>) = out

\* a stream with another admissible order, two subreddits tied in it
C14_Witness ==
  /\ fn = "top_subreddits"
  /\ \E t \in Reorderings(Merged(arg)) : t # Merged(arg)
  /\ Len(out) >= 2
  /\ out[1][2] = out[2][2]
  /\ out[1][2] >= 2

----------------------------------------------------------------------------
(* C15 *)

\* the digest of a dataset the program fetched itself was built
DigestBuilt == fn = "extract_post_data" /\ arg.writer = "same" /\ ~out.raises

\* a section shows the records of highest score, at most limit of them, in
\* descending score order, equal scores in the order of the listing
RankedSection(excerpts, records, limit) ==
  LET score(p) == Get(records[p], "score", 0)
      shown == {excerpts[i].pos : i \in 1..Len(excerpts)}
  IN /\ Len(excerpts) = Min(limit, Len(records))
     /\ Cardinality(shown) = Len(excerpts)
     /\ shown \subseteq 1..Len(records)
     /\ \A i, j \in 1..Len(excerpts) :
          i < j => \/ score(excerpts[i].pos) > score(excerpts[j].pos)
                   \/ /\ score(excerpts[i].pos) = score(excerpts[j].pos)
                      /\ excerpts[i].pos < excerpts[j].pos
     /\ \A p \in (1..Len(records)) \ shown :
          \A q \in shown : score(p) <= score(q)

\* C15: the submission section and the comment section of the digest each hold at
\* most max_items excerpts, the records of highest score in descending score
\* order with equal scores in dataset order; no record is shown while one of
\* higher score is left out.
C15_SectionsRankedByScore ==
  (DigestBuilt /\ UsesPraw(variant))
    => /\ RankedSection(out.submissions, arg.subs, max_items(variant))
       /\ RankedSection(out.comments, arg.coms, max_items(variant))

----------------------------------------------------------------------------
(* C16 *)

RECURSIVE TextChars(_)
TextChars(excerpts) ==
  IF excerpts = <<>> THEN 0
  ELSE Head(excerpts).title.len + Head(excerpts).content.len + TextChars(Tail(excerpts))

\* two sections of max_items excerpts, a title and a content of at most
\* ExcerptChars characters in each
DigestBound(v) == 2 * max_items(v) * 2 * ExcerptChars

\* C16: whatever the number of records and the lengths of their texts, the
\* characters of record text in the digest stay within a bound fixed by max_items
\* and the per-excerpt truncation constant.
C16_DigestLengthBounded ==
  DigestBuilt
    => TextChars(out.submissions) + TextChars(out.comments) <= DigestBound(variant)

----------------------------------------------------------------------------
(* C17 *)

\* C17: building the digest never raises for a record that lacks a field: a
\* missing text is shown as the empty string and a missing number as zero.
C17_MissingFieldsDefaulted ==
  (fn = "extract_post_data" /\ arg.writer = "same")
    => /\ ~out.raises
       /\ \A i \in 1..Len(out.submissions) :
            LET r == arg.subs[out.submissions[i].pos]
            IN /\ out.submissions[i].title = Get(r, "title", NoText)
               /\ out.submissions[i].score = Get(r, "score", 0)
       /\ \A i \in 1..Len(out.comments) :
            out.comments[i].score = Get(arg.coms[out.comments[i].pos], "score", 0)

----------------------------------------------------------------------------
(* C18 *)

\* C18: for a dataset without submissions and without comments the digest is built
\* without raising: a header with the username, both totals zero and an empty
\* subreddit list, and two empty excerpt sections.
C18_EmptyDatasetDigest ==
  (fn = "extract_post_data" /\ arg.writer = "same" /\ UsesPraw(variant)
     /\ arg.subs = <<>> /\ arg.coms = <<>>)
    => /\ ~out.raises
       /\ out.header.username = "alice"
       /\ out.header.total_submissions = 0
       /\ out.header.total_comments = 0
       /\ out.header.subreddits = <<>>
       /\ out.submissions = <<>>
       /\ out.comments = <<>>

\* the digest of the empty dataset was built by the program that ranks by score
C18_Witness ==
  /\ fn = "extract_post_data"
  /\ variant = "complete-claude"
  /\ arg.writer = "same"
  /\ arg.subs = <<>> /\ arg.coms = <<>>
  /\ ~out.raises
  /\ out.header.total_submissions = 0

----------------------------------------------------------------------------
(* C19, C20 *)

\* C19: the session follows Idle -> AwaitingQuestion -> (Exit | ShowHistory |
\* ForceRefresh | Analyzing) -> AwaitingQuestion: an input at the prompt leads to
\* one of the four states, each of ShowHistory, ForceRefresh and Analyzing comes
\* back to AwaitingQuestion (unless the process is killed from outside), and
\* nothing of the session follows Exit.
C19_SessionStateMachine ==
  /\ [][/\ (pc = "AwaitingQuestion" /\ pc' # pc)
             => pc' \in {"Exit", "ShowHistory", "ForceRefresh", "Analyzing", "Dead"}
        /\ (pc \in {"ShowHistory", "ForceRefresh", "Analyzing"} /\ pc' # pc)
             => pc' \in {"AwaitingQuestion", "Dead"}
        /\ (pc = "Exit" /\ pc' # pc) => pc' = "Idle"]_vars
  /\ \A h \in {"ShowHistory", "ForceRefresh", "Analyzing"} :
        (pc = h) ~> (pc \in {"AwaitingQuestion", "Dead"})

\* C20: once the session is at the prompt no error ends the loop: the loop is left
\* only from the prompt on 'exit' (or by a kill from outside), never by an
\* exception that leaves a branch.
C20_ErrorsKeepSession ==
  [][(pc \in {"AwaitingQuestion", "ShowHistory", "ForceRefresh", "Analyzing", "Help"}
        /\ pc' \in {"Exit", "Crashed"})
       => pc = "AwaitingQuestion" /\ pc' = "Exit"]_vars

----------------------------------------------------------------------------
(* C21 *)

\* C21: in the PRAW programs, when fetch_user_data does not serve a fresh entry
\* (force_refresh, or the entry is absent or stale) and the fetch succeeds, it has
\* requested both listings, the dataset it returns has fetch_time = now and the
\* statistics of its own records, and the cache file holds exactly that dataset
\* afterwards: nothing of the entry stored before is left.
C21_RefetchReplacesEntry ==
  [][(FetchStep /\ UsesPraw(variant) /\ call'.outcome = "fetched" /\ call'.fault = "none")
       => /\ call'.remote = <<"probe", "submissions", "comments">>
          /\ call'.result.ok
          /\ call'.result.value.fetch_time = isoformat(now)
          /\ call'.result.value.statistics =
                [total_submissions |-> Len(call'.result.value.submissions),
                 total_comments |-> Len(call'.result.value.comments),
                 top_subreddits |-> top_subreddits(variant, call'.result.value.submissions,
                                                   call'.result.value.comments)]
          /\ load_cached_data(fs', username) =
                [found |-> TRUE, raises |-> FALSE, value |-> call'.result.value]]_vars

\* a question found the entry of an earlier question stale and refetched it
C21_Witness ==
  /\ pc = "AwaitingQuestion"
  /\ UsesPraw(variant)
  /\ call.op = "fetch" /\ ~call.force /\ call.outcome = "fetched" /\ call.fault = "none"
  /\ last.again
  /\ EntryStored /\ EntryAge = 0 /\ now >= FreshnessWindow

----------------------------------------------------------------------------
(* C22 *)

\* C22: in the PRAW programs, after a successful refetch the cached submissions
\* and comments are the whole sequences the listings deliver, in the order
\* delivered, however long they are.
C22_PullsWholeListing ==
  (fn = "fetch_user_data" /\ UsesPraw(variant) /\ out.outcome = "fetched")
    => LET cached == load_cached_data(out.files, "alice")
       IN /\ cached.found
          /\ Len(cached.value.submissions) = Len(arg.subs)
          /\ Len(cached.value.comments) = Len(arg.coms)
          /\ \A i \in 1..Len(cached.value.submissions) :
                FieldsOf(variant, cached.value.submissions[i]).created_utc = arg.subs[i].created_utc
          /\ \A i \in 1..Len(cached.value.comments) :
                FieldsOf(variant, cached.value.comments[i]).created_utc = arg.coms[i].created_utc

----------------------------------------------------------------------------
(* C23, C24 *)

\* C23: the files of a session belong to its username alone: for two different
\* usernames that main both lets through, the cache file and the history file of
\* the one are neither the cache file nor the history file of the other.
C23_UsernamesPartitionFiles ==
  (fn = "main" /\ out.session)
    => \A other \in {a.name : a \in NameArgs} \ {arg.name} :
         main(variant, other).session
           => {out.cache, out.history}
                \cap {main(variant, other).cache, main(variant, other).history} = {}

\* C24: a username that is empty or has a character other than letters, digits,
\* '_' and '-' is rejected by main: no session is started for it.
C24_InvalidUsernameRejected ==
  (fn = "main" /\ ~(Len(arg.name) = 1 /\ arg.name[1] \in PlainNames)) => ~out.session

----------------------------------------------------------------------------
(* C25 *)

\* C25: a failure of the existence probe or of a listing never leaves
\* fetch_user_data as an exception: it is caught inside, and the caller gets no
\* data.
C25_RemoteFailuresBecomeNoData ==
  [][(FetchStep /\ call'.op = "fetch" /\ (call'.probe # "ok" \/ call'.fault # "none"))
       => call'.outcome # "raised" /\ ~call'.result.ok]_vars

----------------------------------------------------------------------------
(* C26 *)

\* C26: when the completion call of a question fails, the session is at the prompt
\* again (unless the process is killed while it saves the history) and the failure
\* has become text: the programs that catch it in the analysis routine record the
\* error text as the answer of the turn, the others print it and record no turn.
C26_CompletionFailureKeepsSession ==
  [][(AnalyzingStep /\ call'.completion = "error")
       => /\ pc' \in {"AwaitingQuestion", "Dead"}
          /\ pc' = "AwaitingQuestion"
               => chat_history' =
                    IF GuardsCompletion(variant) /\ HasHistory(variant)
                    THEN Append(chat_history, Turn(now, question, Str("Error analysing data")))
                    ELSE chat_history]_vars

\* reddit-analyser-complete-groq.py is at the prompt after a failed completion call
C26_Witness ==
  /\ pc = "AwaitingQuestion"
  /\ variant = "complete-groq"
  /\ call.completion = "error"
  /\ Len(chat_history) = 1 /\ chat_history[1].answer = Str("Error analysing data")

----------------------------------------------------------------------------
(* C27 *)

----------------------------------------------------------------------------
(* C28 *)

\* C28: every date of the digest is the UTC calendar day of the creation time of
\* the record it stands with, whatever the time zone of the machine that builds
\* the digest.
C28_DatesAreUtc ==
  (fn = "extract_post_data" /\ UsesPraw(variant) /\ ~out.raises)
    => /\ \A i \in 1..Len(out.submissions) :
             out.dates.submissions[i]
               = <<"date", arg.subs[out.submissions[i].pos].created_utc \div HoursPerDay>>
       /\ \A i \in 1..Len(out.comments) :
             out.dates.comments[i]
               = <<"date", arg.coms[out.comments[i].pos].created_utc \div HoursPerDay>>

----------------------------------------------------------------------------
(* C29 *)

\* C29: in the programs that keep a history, a question branch that appends a turn
\* and comes back to the prompt has run fetch, digest, prompt, completion call and append in this order: the
\* turn is appended after the completion call has ended, and the turns in the
\* prompt are the last three of the history as it was before the append.
C29_AnalyzingOrder ==
  [][(AnalyzingStep /\ HasHistory(variant) /\ pc' = "AwaitingQuestion"
        /\ \E i \in 1..Len(call'.steps) : call'.steps[i] = "append")
       => /\ call'.steps = <<"fetch", "digest", "prompt", "completion", "append">>
          /\ call'.completion # "none"
          /\ call'.context = context_window(chat_history)]_vars

----------------------------------------------------------------------------
(* C30 *)

\* C30: when the fetch_user_data call of a question returns no dataset (neither a
\* fresh cache entry nor a fetch that succeeded), the answer of the question is
\* the message that the data could not be fetched, and no completion call is made.
C30_NoDataNoCompletion ==
  [][(AnalyzingStep /\ call'.op = "fetch" /\ call'.outcome \notin {"raised", "killed"}
        /\ ~call'.result.ok)
       => /\ call'.answer = Str("Unable to fetch user data.")
          /\ call'.completion = "none"
          /\ \A i \in 1..Len(call'.steps) : call'.steps[i] \notin {"prompt", "completion"}]_vars

\* a question was asked about a user the source does not know, with no cache entry
C30_Witness ==
  /\ pc = "AwaitingQuestion"
  /\ call.op = "fetch"
  /\ call.outcome \notin {"raised", "killed"} /\ ~call.result.ok
  /\ call.probe = "notfound"
  /\ call.remote # <<>>
  /\ call.answer = Str("Unable to fetch user data.")

----------------------------------------------------------------------------
(* C31 *)

\* C31: in the programs that take options at startup, when a forced refresh is
\* asked for, the first data fetch of the session does not answer from the cache
\* but goes to the remote source; and when reddit-analyzer-claude.py is given a
\* limit, the dataset fetched has at most that many submissions and at most that
\* many comments.
C31_StartupOptionsTakeEffect ==
  (fn = "interactive_analysis" /\ arg.kind = "options")
    => /\ arg.refresh => (out.outcome # "hit" /\ out.remote # <<>>)
       /\ (variant = "analyzer-claude" /\ arg.limit # <<>> /\ out.outcome = "fetched")
            => /\ Len(out.result.value.submissions) <= arg.limit[1]
               /\ Len(out.result.value.comments) <= arg.limit[1]

----------------------------------------------------------------------------
(* C32 *)

\* C32: an input that is one of exit, history, refresh, help in any case is
\* handled as a command: it does not enter the question branch, so it is not
\* sent to the completion call and not recorded as the question of a turn.
C32_CommandsAreNotQuestions ==
  [][/\ (pc = "AwaitingQuestion" /\ pc' = "Analyzing") => Lower(question') \notin Commands
     /\ (AnalyzingStep /\ call'.completion # "none") => Lower(question) \notin Commands
     /\ (AnalyzingStep /\ Len(chat_history') > Len(chat_history))
          => Lower(chat_history'[Len(chat_history')].question) \notin Commands]_vars

----------------------------------------------------------------------------
(* C33 *)

\* C33: the cache entry a PRAW program has written is consistent in itself:
\* total_submissions and total_comments are the numbers of stored submissions and
\* comments, top_subreddits lists at most K different subreddits (5 in
\* reddit-analyser-complete-claude.py, 10 elsewhere), each with the number of
\* stored records of that subreddit, and the listed counts add up to at most
\* total_submissions + total_comments.
C33_EntryConsistent ==
  (fn = "save_then_load" /\ UsesPraw(variant) /\ out.loaded.found)
    => LET entry == out.loaded.value
           stored == entry.submissions \o entry.comments
           top == entry.statistics.top_subreddits
           K == IF variant = "complete-claude" THEN 5 ELSE 10
           Held(l) == Cardinality({i \in 1..Len(stored) : SubredditOf(variant, stored[i]) = l})
           RECURSIVE Sum(_)
           Sum(n) == IF n = 0 THEN 0 ELSE top[n][2] + Sum(n - 1)
       IN /\ entry.statistics.total_submissions = Len(entry.submissions)
          /\ entry.statistics.total_comments = Len(entry.comments)
          /\ Len(top) <= K
          /\ \A i, j \in 1..Len(top) : i # j => top[i][1] # top[j][1]
          /\ \A i \in 1..Len(top) : top[i][2] = Held(top[i][1])
          /\ Sum(Len(top)) <= entry.statistics.total_submissions
                                + entry.statistics.total_comments

\* an entry with submissions and comments in more subreddits than the list holds
C33_Witness ==
  /\ fn = "save_then_load"
  /\ UsesPraw(variant)
  /\ out.loaded.found
  /\ out.loaded.value.submissions # <<>> /\ out.loaded.value.comments # <<>>
  /\ Len(out.loaded.value.statistics.top_subreddits) = TopK(variant)
  /\ Cardinality(LabelsOf(Merged(arg))) > TopK(variant)
  /\ out.loaded.value.statistics.top_subreddits[1][2] >= 2

----------------------------------------------------------------------------
(* C34 *)

\* C34: a question branch that is not killed changes the history in one of two
\* ways.  When the analysis routine returned, one turn with the question asked
\* and the returned answer is appended to the history in memory, and the history
\* file is rewritten and holds that history.  When the routine raised, the
\* history in memory and the history file are as before.
C34_OneTurnOrNothing ==
  [][(AnalyzingStep /\ HasHistory(variant) /\ pc' = "AwaitingQuestion")
       => \/ /\ call'.answer # <<>>
             /\ Len(chat_history') = Len(chat_history) + 1
             /\ SubSeq(chat_history', 1, Len(chat_history)) = chat_history
             /\ chat_history'[Len(chat_history')].question = question
             /\ chat_history'[Len(chat_history')].answer = call'.answer
             /\ ~load_chat_history(fs', username).raises
             /\ load_chat_history(fs', username).value = chat_history'
          \/ /\ call'.answer = <<>>
             /\ chat_history' = chat_history
             /\ fs'[get_history_path(username)] = fs[get_history_path(username)]]_vars

----------------------------------------------------------------------------
(* C35 *)

\* C35: whenever a session with turns in its history has come to wait at the
\* prompt, the history file of the username parses and holds exactly the history in memory,
\* turn for turn in order; and the history command and the refresh command, when
\* they come back to the prompt, have changed neither the history in memory nor
\* the history file.
C35_FileMirrorsHistory ==
  [][/\ (pc' = "AwaitingQuestion" /\ HasHistory(variant) /\ chat_history' # <<>>)
          => /\ ~load_chat_history(fs', username').raises
             /\ load_chat_history(fs', username').value = chat_history'
     /\ (pc \in {"ShowHistory", "ForceRefresh"} /\ pc' = "AwaitingQuestion")
          => /\ chat_history' = chat_history
             /\ fs'[get_history_path(username)] = fs[get_history_path(username)]]_vars

----------------------------------------------------------------------------
(* C36 *)

\* C36: nothing is tried twice.  The requests of one question branch of a PRAW
\* program are none, or one pass over the source: the existence probe, then the
\* submissions listing, then the comments listing, the pass ending at a probe that
\* fails; and the branch makes at most one completion call.  The requests of one
\* refresh command are exactly one such pass, and it makes no completion call.
C36_NoRetries ==
  [][/\ (AnalyzingStep /\ UsesPraw(variant))
          => /\ call'.remote \in {<<>>, <<"probe">>, <<"probe", "submissions", "comments">>}
             /\ Cardinality({i \in 1..Len(call'.steps) : call'.steps[i] = "completion"}) <= 1
             /\ Cardinality({i \in 1..Len(call'.steps) : call'.steps[i] = "fetch"}) = 1
     /\ (pc = "ForceRefresh" /\ pc' # pc)
          => /\ call'.remote \in {<<"probe">>, <<"probe", "submissions", "comments">>}
             /\ call'.remote = <<"probe">> <=> call'.probe # "ok"
             /\ call'.completion = "none"
             /\ call'.steps = <<>>]_vars

\* a refresh command went through the probe and both listings of the source
C36_Witness ==
  /\ pc = "AwaitingQuestion"
  /\ UsesPraw(variant)
  /\ call.op = "fetch" /\ call.force
  /\ call.remote = <<"probe", "submissions", "comments">>
  /\ call.completion = "none"
  /\ call.result.ok

----------------------------------------------------------------------------
(* C37 *)

\* C37: the cache file of a username changes only in a step that runs
\* fetch_user_data, sends requests to the remote source and does not fail at the
\* existence probe; a question answered from a cache hit, the history command and
\* every other step of the session leave it as it is.
C37_CacheWrittenOnlyByFetch ==
  [][\A u \in Users :
       fs'[get_cache_path(u)] # fs[get_cache_path(u)]
         => /\ FetchStep
            /\ u = username
            /\ call'.op = "fetch"
            /\ call'.outcome \in {"fetched", "killed"}
            /\ call'.remote # <<>>
            /\ call'.probe = "ok"]_vars

\* a question was answered from a cache entry written some hours before
C37_Witness ==
  /\ pc = "AwaitingQuestion"
  /\ call.op = "fetch" /\ call.outcome = "hit" /\ call.remote = <<>>
  /\ call.completion = "ok"
  /\ EntryStored /\ EntryAge > 0
  /\ Stored.mtime < now

====
